---- MODULE Spec2Model ----
(***************************************************************************)
(* Model of the data-modification tool (src/main_window.py): the           *)
(* modification engine MainWindow.apply_modification, the merge performed  *)
(* by MainWindow.execute_modification, the read-only preview handlers and  *)
(* the threaded file load.                                                 *)
(*                                                                         *)
(* Numbers are exact rationals (the code computes in IEEE doubles; the     *)
(* inputs used here are small integers and dyadic ratios).  A cell is a    *)
(* record [k, n, d]: k = "num" is the rational n/d in lowest terms,        *)
(* k = "nan" the missing-value marker, k = "txt" a non-numeric text with   *)
(* identity n, k = "opq" a finite number whose value the model does not    *)
(* compute (an output of a cubic kernel between two samples).              *)
(***************************************************************************)
EXTENDS Integers, Sequences, FiniteSets, TLC

VARIABLES
    df,               \* self.df: None or the current table
    file_path,        \* self.file_path: the file the table was loaded from
    preview_active,   \* self.preview_active
    loader,           \* the QThread/DataLoader pair of load_data, and its signal
    SCIPY_AVAILABLE,  \* module flag set by the import at the top of the file
    executed,         \* number of confirmed Execute calls so far
    last,             \* the most recent load or Execute (under SpecPreview: the most
                      \* recent handler call): inputs, table before, outcome
    call,             \* the most recent direct call of apply_modification
    comboOriginalUnit,      \* the unit panel: current text of each combo box
    comboTargetUnit,        \* (a text is the sequence of its blank-separated
    comboOriginalBaseUnit,  \* words) and value of each spin box
    comboTargetBaseUnit,
    spinOriginalValue,
    spinTargetValue,
    conversion_ratio  \* self.conversion_ratio

unit_panel ==
    <<comboOriginalUnit, comboTargetUnit, comboOriginalBaseUnit, comboTargetBaseUnit,
      spinOriginalValue, spinTargetValue, conversion_ratio>>

vars ==
    <<df, file_path, preview_active, loader, SCIPY_AVAILABLE, executed, last, call,
      unit_panel>>

-----------------------------------------------------------------------------
(* Bounds of the model *)

\* Executes explored in one session
MaxExec == 1

\* rows of the longest file
MaxRows == 3

\* rows of the longest subset handed directly to apply_modification
MaxLen == 5

-----------------------------------------------------------------------------
(* Exact arithmetic on cells *)

Abs(i) == IF i < 0 THEN -i ELSE i

Max2(a, b) == IF a > b THEN a ELSE b

Min2(a, b) == IF a < b THEN a ELSE b

RECURSIVE GCD(_, _)
GCD(a, b) == IF b = 0 THEN a ELSE GCD(b, a % b)

NaN == [k |-> "nan", n |-> 0, d |-> 1]

Opaque == [k |-> "opq", n |-> 0, d |-> 1]

Txt(i) == [k |-> "txt", n |-> i, d |-> 1]

\* the rational n/d (d # 0) in lowest terms with a positive denominator
Rat(n, d) ==
    LET s == IF d < 0 THEN -1 ELSE 1
        g == GCD(Abs(n), Abs(d))
    IN  [k |-> "num", n |-> (s * n) \div g, d |-> (s * d) \div g]

Int2Cell(i) == Rat(i, 1)

isnan(c) == c.k = "nan"

IsNum(c) == c.k = "num"

\* comparisons and sums go through the common denominator
Less(a, b) ==
    LET g == GCD(a.d, b.d) IN a.n * (b.d \div g) < b.n * (a.d \div g)

LessEq(a, b) ==
    LET g == GCD(a.d, b.d) IN a.n * (b.d \div g) <= b.n * (a.d \div g)

Floor(a) == a.n \div a.d

Ceil(a) == -((-a.n) \div a.d)

\* int(x) of Python, (int) cast of C: truncation toward zero
Trunc(a) == IF a.n >= 0 THEN a.n \div a.d ELSE -((-a.n) \div a.d)

\* float arithmetic: NaN is absorbing, an uncomputed finite value stays one
FAdd(a, b) ==
    IF isnan(a) \/ isnan(b) THEN NaN
    ELSE IF a.k = "opq" \/ b.k = "opq" THEN Opaque
    ELSE LET g == GCD(a.d, b.d)
         IN  Rat(a.n * (b.d \div g) + b.n * (a.d \div g), (a.d \div g) * b.d)

FSub(a, b) ==
    IF isnan(a) \/ isnan(b) THEN NaN
    ELSE IF a.k = "opq" \/ b.k = "opq" THEN Opaque
    ELSE LET g == GCD(a.d, b.d)
         IN  Rat(a.n * (b.d \div g) - b.n * (a.d \div g), (a.d \div g) * b.d)

FMul(a, b) ==
    IF isnan(a) \/ isnan(b) THEN NaN
    ELSE IF (IsNum(a) /\ a.n = 0) \/ (IsNum(b) /\ b.n = 0) THEN Rat(0, 1)
    ELSE IF a.k = "opq" \/ b.k = "opq" THEN Opaque
    ELSE LET g == GCD(Abs(a.n), b.d)
             h == GCD(Abs(b.n), a.d)
         IN  Rat((a.n \div g) * (b.n \div h), (a.d \div h) * (b.d \div g))

\* b is a nonzero number
FDiv(a, b) ==
    IF isnan(a) THEN NaN
    ELSE IF a.k = "opq" THEN Opaque
    ELSE FMul(a, Rat(b.d, b.n))

-----------------------------------------------------------------------------
(* Tables: a pandas DataFrame with a RangeIndex.  cols, dtypes and data are *)
(* parallel sequences; rows is the length of the index (a frame without    *)
(* columns still has one).                                                 *)

Frame(cols, dtypes, rows, data) ==
    [cols |-> cols, dtypes |-> dtypes, rows |-> rows, data |-> data]

None == [cols |-> <<>>, dtypes |-> <<>>, rows |-> -1, data |-> <<>>]

ColIndex(f, name) == CHOOSE i \in 1..Len(f.cols) : f.cols[i] = name

HasCol(f, name) == \E i \in 1..Len(f.cols) : f.cols[i] = name

Column(f, name) == f.data[ColIndex(f, name)]

Dtype(f, name) == f.dtypes[ColIndex(f, name)]

-----------------------------------------------------------------------------
(* apply_modification: the modification engine *)

BasicMethods == {"Multiplication", "Division", "Addition", "Subtraction"}

FilterMethods == {"LPF", "HPF"}

UpsampleMethods ==
    {"Linear", "Cubic", "Nearest", "Next", "Previous", "PCHIP", "V5Cubic", "Makima", "Spline"}

DownsampleMethods == {"Average", "Max", "Min"}

Zero == Rat(0, 1)

One == Rat(1, 1)

\* dt = getattr(self, 'current_dt', 1.0); no code sets current_dt
current_dt == Rat(1, 1)

\* errors='ignore': an unparseable column is returned as it is
to_numeric_ignore(x) == x

\* pd.to_numeric(column, errors='coerce'): unparseable cells become NaN
to_numeric(x) == [i \in 1..Len(x) |-> IF x[i].k = "txt" THEN NaN ELSE x[i]]

\* the dtype of the coerced column: int64 and float64 are kept, object becomes float64
to_numeric_dtype(dtype) == IF dtype = "object" THEN "float64" ELSE dtype

\* the operands of the subtraction exchanged: value - result_df
BasicCol_swapped(method, x, value) ==
    [i \in 1..Len(x) |->
        CASE method = "Multiplication" -> FMul(x[i], value)
          [] method = "Division"       -> FDiv(x[i], value)
          [] method = "Addition"       -> FAdd(x[i], value)
          [] method = "Subtraction"    -> FSub(value, x[i])]

\* the division replaced by floor division: result_df // value
BasicCol_floor_division(method, x, value) ==
    [i \in 1..Len(x) |->
        CASE method = "Multiplication" -> FMul(x[i], value)
          [] method = "Division"       -> IF IsNum(x[i])
                                          THEN Int2Cell(Floor(FDiv(x[i], value)))
                                          ELSE x[i]
          [] method = "Addition"       -> FAdd(x[i], value)
          [] method = "Subtraction"    -> FSub(x[i], value)]

\* result_df (op) value, one column
BasicCol(method, x, value) ==
    [i \in 1..Len(x) |->
        CASE method = "Multiplication" -> FMul(x[i], value)
          [] method = "Division"       -> FDiv(x[i], value)
          [] method = "Addition"       -> FAdd(x[i], value)
          [] method = "Subtraction"    -> FSub(x[i], value)]

\* filtered_data = np.zeros_like(data): a store into it takes the dtype of data,
\* so a store into an int64 array truncates
Store(dtype, c) ==
    IF dtype = "int64" /\ IsNum(c) THEN Int2Cell(Trunc(c))
    ELSE IF dtype = "bool" THEN (IF c = Zero THEN Zero ELSE One)
    ELSE c

LPFCol(x, tau, dtype) ==
    LET alpha == FDiv(current_dt, FAdd(tau, current_dt))
        y[i \in 1..Len(x)] ==
            IF i = 1 THEN x[1]
            ELSE IF isnan(x[i]) THEN y[i - 1]
            ELSE Store(dtype, FAdd(FMul(alpha, x[i]), FMul(FSub(One, alpha), y[i - 1])))
    IN  [i \in 1..Len(x) |-> y[i]]

HPFCol(x, tau, dtype) ==
    LET alpha == FDiv(tau, FAdd(tau, current_dt))
        y[i \in 1..Len(x)] ==
            IF i = 1 THEN Store(dtype, Zero)
            ELSE IF isnan(x[i]) THEN y[i - 1]
            ELSE Store(dtype, FMul(alpha, FSub(FAdd(y[i - 1], x[i]), x[i - 1])))
    IN  [i \in 1..Len(x) |-> y[i]]

FilterCol(method, x, tau, dtype) ==
    IF method = "LPF" THEN LPFCol(x, tau, dtype) ELSE HPFCol(x, tau, dtype)

\* new_length = int(len(result_df) * ratio)
new_length(rows, ratio) == Trunc(FMul(Int2Cell(rows), ratio))

\* new_indices = np.linspace(0, len - 1, new_length), element j (from 1)
new_index(j, rows, m) == IF m = 1 THEN Zero ELSE Rat((j - 1) * (rows - 1), m - 1)

\* y at the 0-based sample position i
At(y, i) == y[i + 1]

\* np.interp(x, old_indices, y) for x inside [0, len - 1]: exact at a sample,
\* linear between two samples
np_interp(y, x) ==
    LET j == Floor(x)
    IN  IF Len(y) = 1 THEN y[1]
        ELSE IF x.d = 1 THEN At(y, x.n)
        ELSE FAdd(FMul(FSub(At(y, j + 1), At(y, j)), FSub(x, Int2Cell(j))), At(y, j))

\* interp1d(kind='linear', fill_value="extrapolate"): slope * (x - x_lo) + y_lo on
\* the interval found by searchsorted, clipped to [1, len - 1]; with one sample the
\* interval is degenerate and the slope is 0/0
interp1d_linear(y, x) ==
    LET n  == Len(y)
        hi == Max2(1, Min2(n - 1, Ceil(x)))
        lo == hi - 1
    IN  IF n = 1 THEN NaN
        ELSE FAdd(FMul(FSub(At(y, hi), At(y, lo)), FSub(x, Int2Cell(lo))), At(y, lo))

\* interp1d(kind='nearest'): the sample whose midpoint bound lies below x; a
\* tie goes to the lower sample.  The numpy branch (argmin of |x - old|) agrees.
interp1d_nearest(y, x) ==
    At(y, Max2(0, Min2(Len(y) - 1, Ceil(Rat(2 * x.n - x.d, 2 * x.d)))))

interp1d_next(y, x) == At(y, Ceil(x))

interp1d_previous(y, x) == At(y, Floor(x))

\* samples a kernel needs: interp1d(kind='cubic') order + 1, the others two
MinPoints(method) == IF method = "Cubic" THEN 4 ELSE 2

\* the constructors of the cubic kernels raise ValueError on too few samples
\* and on non-finite samples
KernelFails(method, y) ==
    Len(y) < MinPoints(method) \/ \E i \in 1..Len(y) : isnan(y[i])

\* Cubic, Spline, PCHIP, Makima, V5Cubic: an interpolant through the samples;
\* through two samples it is the straight line; between samples the value is
\* not computed.  The except branch falls back to np.interp.
CubicKernel(method, y, x) ==
    IF KernelFails(method, y) THEN np_interp(y, x)
    ELSE IF Len(y) = 2 THEN np_interp(y, x)
    ELSE IF x.d = 1 THEN At(y, x.n)
    ELSE Opaque

Interpolate(method, y, x, scipy) ==
    IF scipy
    THEN CASE method = "Linear"   -> interp1d_linear(y, x)
           [] method = "Nearest"  -> interp1d_nearest(y, x)
           [] method = "Next"     -> interp1d_next(y, x)
           [] method = "Previous" -> interp1d_previous(y, x)
           [] OTHER               -> CubicKernel(method, y, x)
    ELSE IF method = "Nearest" THEN interp1d_nearest(y, x) ELSE np_interp(y, x)

UpsampleCol(method, y, m, scipy) ==
    [j \in 1..m |-> Interpolate(method, y, new_index(j, Len(y), m), scipy)]

\* group_size = int(1 / ratio), at least 1
group_size(ratio) == Max2(1, Trunc(FDiv(One, ratio)))

\* only the full groups counted: rows // group_size
NumGroups_full(rows, g) == rows \div g

\* number of groups of np.arange(rows) // group_size
NumGroups(rows, g) == (rows + g - 1) \div g

\* groups that take the first row of the next group as well
Group_inclusive(x, k, g) == SubSeq(x, (k - 1) * g + 1, Min2(k * g + 1, Len(x)))

Group(x, k, g) == SubSeq(x, (k - 1) * g + 1, Min2(k * g, Len(x)))

NotNaN(s) == SelectSeq(s, LAMBDA c : ~isnan(c))

RECURSIVE SumCells(_)
SumCells(s) == IF Len(s) = 0 THEN Zero ELSE FAdd(s[1], SumCells(Tail(s)))

\* mean, max, min of a group skip NaN; a group of NaN only gives NaN
GroupMean(s) ==
    LET v == NotNaN(s)
    IN  IF Len(v) = 0 THEN NaN ELSE FDiv(SumCells(v), Int2Cell(Len(v)))

GroupMax(s) ==
    LET v == NotNaN(s)
    IN  IF Len(v) = 0 THEN NaN
        ELSE IF \E i \in 1..Len(v) : v[i].k = "opq" THEN Opaque
        ELSE v[CHOOSE i \in 1..Len(v) : \A j \in 1..Len(v) : LessEq(v[j], v[i])]

GroupMin(s) ==
    LET v == NotNaN(s)
    IN  IF Len(v) = 0 THEN NaN
        ELSE IF \E i \in 1..Len(v) : v[i].k = "opq" THEN Opaque
        ELSE v[CHOOSE i \in 1..Len(v) : \A j \in 1..Len(v) : LessEq(v[i], v[j])]

DownsampleCol(method, x, g) ==
    [k \in 1..NumGroups(Len(x), g) |->
        CASE method = "Average" -> GroupMean(Group(x, k, g))
          [] method = "Max"     -> GroupMax(Group(x, k, g))
          [] method = "Min"     -> GroupMin(Group(x, k, g))]

Returned(f) == [raised |-> FALSE, frame |-> f]

Raised == [raised |-> TRUE, frame |-> None]

\* apply_modification(df_subset, method, value, ratio).  scipy is the module
\* flag; aggRaises tells whether the installed pandas raises on aggregating a
\* grouped frame without columns (older releases) or returns one row per group.
apply_modification(df_subset, method, value, ratio, scipy, aggRaises) ==
    LET cols == df_subset.cols
        nc   == Len(cols)
        rows == df_subset.rows
        x    == [c \in 1..nc |-> to_numeric(df_subset.data[c])]
        dts  == [c \in 1..nc |-> to_numeric_dtype(df_subset.dtypes[c])]
        flt  == [c \in 1..nc |-> "float64"]
        result_df == Frame(cols, dts, rows, x)
    IN  CASE method \in BasicMethods ->
                IF method = "Division" /\ value.n = 0 THEN Returned(result_df)
                ELSE Returned(Frame(cols, flt, rows,
                                    [c \in 1..nc |-> BasicCol(method, x[c], value)]))
          [] method \in FilterMethods ->
                IF value.n <= 0 THEN Returned(result_df)
                ELSE IF nc > 0 /\ rows = 0 THEN Raised
                ELSE Returned(Frame(cols, dts, rows,
                                    [c \in 1..nc |-> FilterCol(method, x[c], value, dts[c])]))
          [] method \in UpsampleMethods ->
                IF LessEq(ratio, One) THEN Returned(result_df)
                ELSE IF nc = 0 THEN Returned(Frame(cols, flt, 0, x))
                ELSE IF rows = 0 THEN Raised
                ELSE LET m == new_length(rows, ratio)
                     IN  Returned(Frame(cols, flt, m,
                                        [c \in 1..nc |-> UpsampleCol(method, x[c], m, scipy)]))
          [] method \in DownsampleMethods ->
                IF LessEq(One, ratio) THEN Returned(result_df)
                ELSE IF nc = 0 /\ aggRaises THEN Raised
                ELSE LET g == group_size(ratio)
                     IN  Returned(Frame(cols,
                                        [c \in 1..nc |-> IF method = "Average"
                                                         THEN "float64" ELSE dts[c]],
                                        NumGroups(rows, g),
                                        [c \in 1..nc |-> DownsampleCol(method, x[c], g)]))
          [] OTHER -> Returned(result_df)

-----------------------------------------------------------------------------
(* execute_modification: the merge of the modified subset into the table *)

\* the bound of a Python slice on a sequence of n rows
SliceIndex(n, i) == IF i < 0 THEN Max2(0, n + i) ELSE Min2(i, n)

\* f.iloc[start:end]
iloc(f, start, end) ==
    LET lo == SliceIndex(f.rows, start)
        hi == Max2(lo, SliceIndex(f.rows, end))
    IN  Frame(f.cols, f.dtypes, hi - lo,
              [c \in 1..Len(f.cols) |-> SubSeq(f.data[c], lo + 1, hi)])

\* f[names]
SelectCols(f, names) ==
    Frame(names, [i \in 1..Len(names) |-> Dtype(f, names[i])], f.rows,
          [i \in 1..Len(names) |-> Column(f, names[i])])

\* the texts of the checked column_checkboxes, in the order of the columns
selected_cols(f, checked) == SelectSeq(f.cols, LAMBDA c : c \in checked)

\* Series.describe() of a text or a boolean column: count, unique, top, freq
DescribeLacksMin(dtype) == dtype \in {"object", "bool"}

\* update_summary_table reads min, max, mean and std of describe() of every
\* original column the modified frame holds; describe() of an object column has
\* none of them and the lookup raises KeyError
update_summary_table_raises(original_df, modified_df) ==
    \E i \in 1..Len(modified_df.cols) :
        /\ HasCol(original_df, modified_df.cols[i])
        /\ DescribeLacksMin(Dtype(original_df, modified_df.cols[i]))

\* update_statistics reads min, max, mean and std of describe() of every
\* column is_numeric_dtype accepts; a boolean column is accepted and its
\* describe() has none of them
update_statistics_raises(f) ==
    \E c \in 1..Len(f.cols) : f.dtypes[c] = "bool"

\* the rows df.loc[start:end-1] selects by label on a RangeIndex: [LocLo, LocHi)
LocLo(n, start) == Max2(0, start)

LocHi(n, start, end) == Max2(LocLo(n, start), Min2(n, end))

\* df.loc[start:end-1, col] = values raises when the number of values differs
\* from the number of selected rows; whether one value is broadcast over
\* several rows depends on the installed pandas
loc_raises(n, start, end, k, broadcasts) ==
    LET cnt == LocHi(n, start, end) - LocLo(n, start)
    IN  k # cnt /\ ~(k = 1 /\ cnt > 1 /\ broadcasts)

\* the whole column replaced by the values: df[col] = values
loc_assign_column(column, start, end, values) == values

\* the column after df.loc[start:end-1, col] = values
loc_assign(column, start, end, values) ==
    LET n  == Len(column)
        lo == LocLo(n, start)
        hi == LocHi(n, start, end)
    IN  SubSeq(column, 1, lo)
          \o [i \in 1..(hi - lo) |-> IF Len(values) = hi - lo THEN values[i] ELSE values[1]]
          \o SubSeq(column, hi + 1, n)

\* the dtype of a column after float or int values are stored into it
loc_dtype(old, new, cnt) ==
    IF cnt = 0 \/ (old = "int64" /\ new = "int64") THEN old ELSE "float64"

\* the values written at the positions they have in the subset, rows [0, end - start)
merge_in_place_from_top(f, start, end, modified) ==
    Frame(f.cols, f.dtypes, f.rows,
          [c \in 1..Len(f.cols) |->
              IF HasCol(modified, f.cols[c])
              THEN Column(modified, f.cols[c])
                     \o SubSeq(f.data[c], modified.rows + 1, f.rows)
              ELSE f.data[c]])

\* the table replaced by the modified subset: self.df = modified_subset
merge_in_place_subset(f, start, end, modified) == modified

\* for col in selected_cols: self.df.loc[start_row:end_row-1, col] = modified_subset[col].values
merge_in_place(f, start, end, modified) ==
    LET cnt == LocHi(f.rows, start, end) - LocLo(f.rows, start)
    IN  Frame(f.cols,
              [c \in 1..Len(f.cols) |->
                  IF HasCol(modified, f.cols[c])
                  THEN loc_dtype(f.dtypes[c], Dtype(modified, f.cols[c]), cnt)
                  ELSE f.dtypes[c]],
              f.rows,
              [c \in 1..Len(f.cols) |->
                  IF HasCol(modified, f.cols[c])
                  THEN loc_assign(f.data[c], start, end, Column(modified, f.cols[c]))
                  ELSE f.data[c]])

\* other methods of the same direction: "Nearest" if ratio > 1 else "Max"
sync_method_other(ratio) == IF Less(One, ratio) THEN "Nearest" ELSE "Max"

\* sync_method = "Linear" if ratio > 1 else "Average"
sync_method(ratio) == IF Less(One, ratio) THEN "Linear" ELSE "Average"

\* the method of one column of the middle block
part_method(name, names, method, ratio) ==
    IF \E i \in 1..Len(names) : names[i] = name THEN method ELSE sync_method(ratio)

\* the columns the middle block is built from: for col in self.df.columns
part_columns(f, names) == f.cols

\* mod_data for one column: apply_modification(self.df.iloc[start:end][[col]], ...)
new_part(f, start, end, name, names, method, value, ratio, scipy) ==
    apply_modification(SelectCols(iloc(f, start, end), <<name>>),
                       part_method(name, names, method, ratio), value, ratio, scipy, FALSE)

\* the dtype of a column concatenated from pieces
JoinDtype(a, b) ==
    IF a = b THEN a
    ELSE IF {a, b} \cap {"object", "bool"} # {} THEN "object"
    ELSE "float64"

\* pd.concat(new_parts, axis=1) of one-column frames with a fresh RangeIndex:
\* the frames are aligned on the index, a shorter column is padded with NaN
concat_axis1(parts) ==
    LET np   == Len(parts)
        rows == IF np = 0 THEN 0
                ELSE CHOOSE r \in {parts[i].rows : i \in 1..np} :
                        \A i \in 1..np : parts[i].rows <= r
    IN  Frame([i \in 1..np |-> parts[i].cols[1]],
              [i \in 1..np |-> IF parts[i].rows < rows THEN "float64" ELSE parts[i].dtypes[1]],
              rows,
              [i \in 1..np |->
                  parts[i].data[1] \o [j \in 1..(rows - parts[i].rows) |-> NaN]])

\* pd.concat([df_start, modified_middle, df_end]).reset_index(drop=True): the
\* columns of the first frame, then the columns only later frames have; a
\* column a frame lacks is NaN over that frame's rows
concat_rows(a, b, c) ==
    LET extra(done, f) == SelectSeq(f.cols, LAMBDA x : ~(\E i \in 1..Len(done) : done[i] = x))
        cols1 == a.cols \o extra(a.cols, b)
        cols  == cols1 \o extra(cols1, c)
        piece(f, x) == IF HasCol(f, x) THEN Column(f, x) ELSE [j \in 1..f.rows |-> NaN]
        dtp(f, x)   == IF HasCol(f, x) THEN Dtype(f, x) ELSE "float64"
    IN  Frame(cols,
              [i \in 1..Len(cols) |->
                  JoinDtype(JoinDtype(dtp(a, cols[i]), dtp(b, cols[i])), dtp(c, cols[i]))],
              a.rows + b.rows + c.rows,
              [i \in 1..Len(cols) |->
                  piece(a, cols[i]) \o piece(b, cols[i]) \o piece(c, cols[i])])

\* the resampling branch: df_start, the middle block built column by column, df_end
merge_rebuild(f, start, end, names, method, value, ratio, scipy) ==
    LET cols  == part_columns(f, names)
        parts == [i \in 1..Len(cols) |->
                     new_part(f, start, end, cols[i], names, method, value, ratio, scipy)]
    IN  IF \E i \in 1..Len(cols) : parts[i].raised THEN Raised
        ELSE Returned(concat_rows(iloc(f, 0, start),
                                  concat_axis1([i \in 1..Len(cols) |-> parts[i].frame]),
                                  iloc(f, end, f.rows)))

\* The body of the try block of execute_modification on the table f.
\* outcome "failed" is the except branch (the message box 'Execution failed').
execute_result(f, start, end, method, value, ratio, checked, scipy, broadcasts, aggRaises) ==
    LET names    == selected_cols(f, checked)
        subset   == SelectCols(iloc(f, start, end), names)
        applied  == apply_modification(subset, method, value, ratio, scipy, aggRaises)
        modified == applied.frame
        failed   == [outcome |-> "failed", branch |-> "none", df |-> f,
                     k |-> subset.rows, m |-> -1]
        \* the merge is done; update_statistics runs on the new table, still
        \* inside the try block
        merged(branch, new) ==
            [outcome |-> IF update_statistics_raises(new) THEN "failed" ELSE "ok",
             branch |-> branch, df |-> new, k |-> subset.rows, m |-> modified.rows]
    IN  IF applied.raised THEN failed
        ELSE IF update_summary_table_raises(subset, modified) THEN failed
        ELSE IF modified.rows = subset.rows
        THEN IF Len(names) > 0 /\ loc_raises(f.rows, start, end, modified.rows, broadcasts)
             THEN failed
             ELSE merged("in_place", merge_in_place(f, start, end, modified))
        ELSE LET rebuilt == merge_rebuild(f, start, end, names, method, value, ratio, scipy)
             IN  IF rebuilt.raised THEN failed
                 ELSE merged("rebuild", rebuilt.frame)

-----------------------------------------------------------------------------
(* The read-only handlers *)

\* preview_modification on the table f: "warned" is the 'select at least one
\* column' return, "failed" the except branch; flag tells whether
\* self.preview_active = True was reached (it precedes update_summary_table)
preview_result(f, start, end, method, value, ratio, checked, scipy) ==
    LET names == selected_cols(f, checked)
        one(name) == apply_modification(SelectCols(iloc(f, start, end), <<name>>),
                                        method, value, ratio, scipy, FALSE)
        subset == SelectCols(iloc(f, start, end), names)
    IN  IF Len(names) = 0 THEN [outcome |-> "warned", flag |-> FALSE]
        ELSE IF \E i \in 1..Len(names) : one(names[i]).raised
        THEN [outcome |-> "failed", flag |-> FALSE]
        ELSE IF \E i \in 1..Len(names) : DescribeLacksMin(Dtype(f, names[i]))
        THEN [outcome |-> "failed", flag |-> TRUE]
        ELSE [outcome |-> "ok", flag |-> TRUE]

\* the previewed rows assigned to the table: self.df = subset
table_after_preview_subset(f, start, end, modified) == iloc(f, start, end)

\* the table after preview_modification or show_preview_popup: both work on
\* pd.DataFrame(...) copies of the subset and never assign self.df
table_after_preview(f, start, end, modified) == f

\* show_preview_popup on the table f
popup_result(f, start, end, method, value, ratio, checked, scipy, active) ==
    LET names == selected_cols(f, checked)
        one(name) == apply_modification(SelectCols(iloc(f, start, end), <<name>>),
                                        method, value, ratio, scipy, FALSE)
    IN  IF Len(names) = 0 THEN "warned"
        ELSE IF active /\ \E i \in 1..Len(names) : one(names[i]).raised THEN "failed"
        ELSE "shown"

\* preview_selection: if start_row < 0 or end_row >= len(self.df) or start_row > end_row
selection_result(f, start, end) ==
    IF start < 0 \/ end >= f.rows \/ start > end THEN "warned" ELSE "shown"

-----------------------------------------------------------------------------
(* Files, and the inputs the handlers are called with *)

Files == {"ab.csv", "at.csv", "af.csv", "bad.dat"}

ramp(n, step) == [i \in 1..n |-> Int2Cell(step * i)]

wave(n) == [i \in 1..n |-> Rat(i * i, 2)]

text(n) == [i \in 1..n |-> Txt(i)]

\* a column of True/False values, True is 1
flags(n) == [i \in 1..n |-> Int2Cell(i % 2)]

\* what pd.read_csv returns: ab.csv holds an integer column and a float column,
\* af.csv an integer column and a boolean column, at.csv an integer column and
\* a text column
read_csv(file) ==
    IF file = "ab.csv"
    THEN Frame(<<"A", "B">>, <<"int64", "float64">>, MaxRows,
               <<ramp(MaxRows, 1), wave(MaxRows)>>)
    ELSE IF file = "af.csv"
    THEN Frame(<<"A", "F">>, <<"int64", "bool">>, MaxRows,
               <<ramp(MaxRows, 1), flags(MaxRows)>>)
    ELSE Frame(<<"A", "T">>, <<"int64", "object">>, MaxRows - 1,
               <<ramp(MaxRows - 1, 10), text(MaxRows - 1)>>)

Names(f) == {f.cols[i] : i \in 1..Len(f.cols)}

\* the row range fields hold any integers; these reach below 0 and past the end
Starts(f) == -1..f.rows

Ends(f) == 0..(f.rows + 1)

Values == {Zero, Rat(2, 1)}

Ratios == {Rat(1, 2), One, Rat(3, 2), Rat(2, 1)}

\* method, value and ratio of a call: the basic operations and the filters do
\* not read the ratio, the resampling methods do not read the value
Cases ==
    {<<m, v, One>> : m \in BasicMethods \cup FilterMethods, v \in Values}
      \cup {<<m, Zero, r>> : m \in UpsampleMethods \cup DownsampleMethods, r \in Ratios}

\* the inputs of a session: one method of each family, both directions of
\* resampling, the whole table and an inner range
SessionCases ==
    {<<"Multiplication", Rat(2, 1), One>>, <<"LPF", Rat(2, 1), One>>,
     <<"Linear", Zero, Rat(2, 1)>>, <<"Average", Zero, Rat(1, 2)>>}

SessionRanges(f) == {<<0, f.rows>>, <<1, 2>>}

\* the ranges the read-only handlers are called with: the whole table, an inner
\* range, all but the last row, a range past the end, a negative start, and a
\* start after the end
PreviewRanges(f) ==
    {<<0, f.rows>>, <<1, 2>>, <<0, f.rows - 1>>, <<0, f.rows + 1>>, <<-1, f.rows>>, <<2, 1>>}

NoCall ==
    [op |-> "none", outcome |-> "none", branch |-> "none", start |-> 0, end |-> 0,
     method |-> "none", value |-> Zero, ratio |-> One, checked |-> {},
     before |-> None, prior |-> None, k |-> 0, m |-> 0]

NoApply ==
    [phase |-> "idle", subset |-> None, method |-> "none", value |-> Zero, ratio |-> One,
     scipy |-> TRUE, raised |-> FALSE, result |-> None]

\* no load in flight; dialog is TRUE while a LoadingDialog is showing
Idle == [state |-> "idle", file |-> "", ok |-> FALSE, dialog |-> FALSE]

-----------------------------------------------------------------------------
(* The unit panel and update_conversion_factor.  The dictionary keys are the *)
(* Korean unit words of the source, written here in Latin letters: "cho"     *)
(* second, "bun" minute, "sigan" hour, "il" day.                             *)

unit_to_seconds == [cho |-> 1, bun |-> 60, sigan |-> 3600, il |-> 86400]

\* unit_to_seconds.get(key, 1)
dict_get(key) == IF key \in DOMAIN unit_to_seconds THEN unit_to_seconds[key] ELSE 1

\* "Custom" in unit_text
is_custom(unit_text) == \E i \in 1..Len(unit_text) : unit_text[i] = "Custom"

get_seconds_base_ignored(unit_text, custom, custom_val, custom_base) ==
    IF is_custom(unit_text) THEN custom_val ELSE Int2Cell(dict_get(unit_text[1]))

\* the inner helper: a custom unit looks the whole text of the base combo box
\* up, a named unit the first word of its text
get_seconds(unit_text, custom, custom_val, custom_base) ==
    IF is_custom(unit_text)
    THEN FMul(custom_val,
              Int2Cell(IF Len(custom_base) = 1 THEN dict_get(custom_base[1]) ELSE 1))
    ELSE Int2Cell(dict_get(unit_text[1]))

\* the value update_conversion_factor stores in self.conversion_ratio
update_conversion_factor(ou, tu, ob, tb, ov, tv) ==
    LET original_seconds == get_seconds(ou, is_custom(ou), ov, ob)
        target_seconds == get_seconds(tu, is_custom(tu), tv, tb)
    IN  IF target_seconds # Zero THEN FDiv(original_seconds, target_seconds) ELSE One

\* the item texts of main_window.ui: a unit combo box lists the four named
\* units as "<word> (<english>)" and "Custom", a base combo box the four words
UnitItem ==
    [second |-> <<"cho", "(second)">>, minute |-> <<"bun", "(minute)">>,
     hour |-> <<"sigan", "(hour)">>, day |-> <<"il", "(day)">>]

BaseItem == [second |-> <<"cho">>, minute |-> <<"bun">>, hour |-> <<"sigan">>, day |-> <<"il">>]

CustomItem == <<"Custom">>

UnitNames == DOMAIN UnitItem

UnitItems == {UnitItem[u] : u \in UnitNames} \cup {CustomItem}

BaseItems == {BaseItem[u] : u \in UnitNames}

\* the values a spin box is set to
SpinValues == {Zero, One, Rat(2, 1), Rat(15, 1)}

\* the panel after __init__: the first item of every combo box, and the ratio
\* setup_custom_unit_visibility computes from them
UnitPanelInit ==
    /\ comboOriginalUnit = UnitItem.second
    /\ comboTargetUnit = UnitItem.second
    /\ comboOriginalBaseUnit = BaseItem.second
    /\ comboTargetBaseUnit = BaseItem.second
    /\ spinOriginalValue = One
    /\ spinTargetValue = One
    /\ conversion_ratio = One

-----------------------------------------------------------------------------
(* Actions *)

\* load_data: shows the modal LoadingDialog and starts the worker thread.  The
\* Load button is reachable whenever no modal dialog is showing.  With a load
\* still in flight, self.thread = QThread() drops the only reference to the
\* running QThread: the object is destroyed while its thread runs and Qt ends
\* the process.
load_data(file) ==
    /\ ~loader.dialog
    /\ loader.state # "aborted"
    /\ loader' = IF loader.state = "idle"
                 THEN [state |-> "started", file |-> file, ok |-> FALSE, dialog |-> TRUE]
                 ELSE [loader EXCEPT !.state = "aborted"]
    /\ UNCHANGED <<df, file_path, preview_active, SCIPY_AVAILABLE, executed, last, call, unit_panel>>

\* DataLoader.run: emits finished with the DataFrame or with the exception
DataLoader_run ==
    /\ loader.state = "started"
    /\ loader' = [loader EXCEPT !.state = "emitted", !.ok = (loader.file # "bad.dat")]
    /\ UNCHANGED <<df, file_path, preview_active, SCIPY_AVAILABLE, executed, last, call, unit_panel>>

\* on_data_loaded: closes the dialog; an exception leaves the session as it
\* was.  A table is assigned first; update_statistics runs inside the try
\* block and the flag is reset after it, at the end of the block.
on_data_loaded ==
    /\ loader.state = "emitted"
    /\ loader' = Idle
    /\ IF loader.ok
       THEN /\ df' = read_csv(loader.file)
            /\ file_path' = loader.file
            /\ IF update_statistics_raises(df')
               THEN /\ preview_active' = preview_active
                    /\ last' = [NoCall EXCEPT !.op = "on_data_loaded",
                                              !.outcome = "failed"]
               ELSE /\ preview_active' = FALSE
                    /\ last' = [NoCall EXCEPT !.op = "on_data_loaded", !.outcome = "ok"]
       ELSE UNCHANGED <<df, file_path, preview_active, last>>
    /\ UNCHANGED <<SCIPY_AVAILABLE, executed, call, unit_panel>>

\* LoadingDialog is a QDialog that overrides neither reject nor keyPressEvent:
\* Esc closes it while the worker is still running
LoadingDialog_reject ==
    /\ loader.dialog
    /\ loader' = [loader EXCEPT !.dialog = FALSE]
    /\ UNCHANGED <<df, file_path, preview_active, SCIPY_AVAILABLE, executed, last, call, unit_panel>>

\* the widgets are reachable only while no LoadingDialog is showing; every
\* handler returns at once while self.df is None
Ready == ~loader.dialog /\ loader.state # "aborted" /\ df # None

Called(op, start, end, method, value, ratio, checked) ==
    [NoCall EXCEPT !.op = op, !.start = start, !.end = end, !.method = method,
                   !.value = value, !.ratio = ratio, !.checked = checked, !.before = df]

\* what a reference to the table object of before the call shows after it: the
\* in-place branch assigns through self.df.loc into that object, the rebuild
\* branch binds self.df to the frame pd.concat returns
prior_table(f, r) == IF r.branch = "in_place" THEN r.df ELSE f

\* execute_modification, confirmed, with the widgets holding the given inputs
Execute(start, end, method, value, ratio, checked, broadcasts, aggRaises) ==
    LET r == execute_result(df, start, end, method, value, ratio, checked,
                            SCIPY_AVAILABLE, broadcasts, aggRaises)
        c == Called("execute_modification", start, end, method, value, ratio, checked)
    IN  /\ Ready
        /\ last' = [c EXCEPT !.outcome = r.outcome, !.branch = r.branch,
                             !.prior = prior_table(df, r), !.k = r.k, !.m = r.m]
        /\ df' = r.df
        /\ executed' = executed + 1
        /\ preview_active' = IF r.outcome = "ok" THEN FALSE ELSE preview_active
        /\ UNCHANGED <<file_path, loader, SCIPY_AVAILABLE, call, unit_panel>>

\* the installed pandas matters only where the code reaches the call in question
Broadcasts(start) == IF start < 0 THEN BOOLEAN ELSE {FALSE}

AggRaises(method, ratio, checked) ==
    IF checked = {} /\ method \in DownsampleMethods /\ Less(ratio, One)
    THEN BOOLEAN ELSE {FALSE}

\* what the user enters: every session input between loads, and while a load
\* is in flight behind a dismissed dialog one scaling or one upsampling of the
\* whole table
ExecuteInputs ==
    IF loader.state = "idle"
    THEN SessionRanges(df) \X SessionCases \X (SUBSET Names(df))
    ELSE {<<0, df.rows>>} \X {<<"Multiplication", Rat(2, 1), One>>,
                               <<"Linear", Zero, Rat(2, 1)>>} \X {Names(df)}

PreviewInputs ==
    IF loader.state = "idle"
    THEN {<<"Multiplication", Rat(2, 1), One>>, <<"Linear", Zero, Rat(2, 1)>>}
            \X {{}, Names(df)}
    ELSE {<<"Multiplication", Rat(2, 1), One>>} \X {Names(df)}

execute_modification ==
    /\ executed < MaxExec
    /\ Ready
    /\ \E in \in ExecuteInputs : \E rg \in {in[1]}, c \in {in[2]}, checked \in {in[3]} :
          \E a \in AggRaises(c[1], c[3], checked) :
             Execute(rg[1], rg[2], c[1], c[2], c[3], checked, FALSE, a)

\* execute_modification answered 'No': returns before the try block
execute_declined ==
    /\ Ready
    /\ last' = [NoCall EXCEPT !.op = "execute_modification", !.outcome = "declined",
                              !.before = df]
    /\ UNCHANGED <<df, file_path, preview_active, loader, SCIPY_AVAILABLE, executed, call, unit_panel>>

\* the record of a call of a read-only handler
Preview(op, start, end, checked, outcome) ==
    [NoCall EXCEPT !.op = op, !.outcome = outcome, !.start = start, !.end = end,
                   !.checked = checked, !.before = df]

\* preview_modification as a session step, on the range the fields hold after
\* a load or an Execute: its only effect is the flag
preview_modification ==
    /\ Ready
    /\ \E in \in PreviewInputs : \E c \in {in[1]}, checked \in {in[2]} :
          LET r == preview_result(df, 0, df.rows, c[1], c[2], c[3], checked,
                                  SCIPY_AVAILABLE)
          IN  /\ df' = table_after_preview(df, 0, df.rows, r)
              /\ preview_active' = (preview_active \/ r.flag)
              /\ last' = Preview("preview_modification", 0, df.rows, checked, r.outcome)
    /\ UNCHANGED <<file_path, loader, SCIPY_AVAILABLE, executed, call, unit_panel>>

Init ==
    /\ df = None
    /\ file_path = ""
    /\ preview_active = FALSE
    /\ loader = Idle
    /\ SCIPY_AVAILABLE \in BOOLEAN
    /\ executed = 0
    /\ last = NoCall
    /\ call = NoApply
    /\ UnitPanelInit

Next ==
    \/ \E file \in Files : load_data(file)
    \/ DataLoader_run
    \/ on_data_loaded
    \/ LoadingDialog_reject
    \/ execute_modification
    \/ preview_modification

Spec == Init /\ [][Next]_vars

\* the session with its scheduling: thread.start() runs DataLoader.run on the
\* worker thread, and the event loop delivers each emitted finished signal
SpecLoad == Spec /\ WF_vars(DataLoader_run) /\ WF_vars(on_data_loaded)

-----------------------------------------------------------------------------
(* One Execute on a freshly loaded table, over every method, value, ratio,   *)
(* row range and selection                                                   *)

\* the files whose load ends without a message box
CleanFiles == {file \in Files \ {"bad.dat"} : ~update_statistics_raises(read_csv(file))}

Loaded ==
    /\ \E file \in CleanFiles : df = read_csv(file) /\ file_path = file
    /\ preview_active = FALSE
    /\ loader = Idle
    /\ SCIPY_AVAILABLE \in BOOLEAN
    /\ executed = 0
    /\ last = NoCall
    /\ call = NoApply
    /\ UnitPanelInit

ExecuteCall ==
    /\ last.op = "none"
    /\ \E start \in Starts(df), end \in Ends(df), c \in Cases, checked \in SUBSET Names(df) :
          \E b \in Broadcasts(start), a \in AggRaises(c[1], c[3], checked) :
             Execute(start, end, c[1], c[2], c[3], checked, b, a)

SpecExecute == Loaded /\ [][ExecuteCall]_vars

-----------------------------------------------------------------------------
(* The read-only handlers on a loaded table, any number of times in any order *)

PreviewModificationCall ==
    \E rg \in PreviewRanges(df), c \in SessionCases, checked \in SUBSET Names(df) :
       LET r == preview_result(df, rg[1], rg[2], c[1], c[2], c[3], checked, SCIPY_AVAILABLE)
       IN  /\ df' = table_after_preview(df, rg[1], rg[2], r)
           /\ preview_active' = (preview_active \/ r.flag)
           /\ last' = Preview("preview_modification", rg[1], rg[2], checked, r.outcome)
           /\ UNCHANGED <<file_path, loader, SCIPY_AVAILABLE, executed, call, unit_panel>>

ShowPreviewPopupCall ==
    \E rg \in PreviewRanges(df), c \in SessionCases, checked \in SUBSET Names(df) :
       LET r == popup_result(df, rg[1], rg[2], c[1], c[2], c[3], checked, SCIPY_AVAILABLE,
                             preview_active)
       IN  /\ df' = table_after_preview(df, rg[1], rg[2], r)
           /\ last' = Preview("show_preview_popup", rg[1], rg[2], checked, r)
           /\ UNCHANGED <<file_path, preview_active, loader, SCIPY_AVAILABLE, executed, call, unit_panel>>

PreviewSelectionCall ==
    \E rg \in PreviewRanges(df) :
       /\ last' = Preview("preview_selection", rg[1], rg[2], {},
                          selection_result(df, rg[1], rg[2]))
       /\ UNCHANGED <<df, file_path, preview_active, loader, SCIPY_AVAILABLE, executed, call, unit_panel>>

NextPreview ==
    \/ PreviewModificationCall
    \/ ShowPreviewPopupCall
    \/ PreviewSelectionCall
    \/ execute_declined

SpecPreview == Loaded /\ [][NextPreview]_vars

-----------------------------------------------------------------------------
(* apply_modification called directly on a subset *)

\* a float column with missing values at the rows in at (read from empty cells)
gaps(n, at) == [i \in 1..n |-> IF i \in at THEN NaN ELSE Rat(i * i, 2)]

\* the rows that are missing: the first, the second, the second and the third
GapSets == {{1}, {2}, {2, 3}}

\* (an integer column beside a float column with a gap is among them)
\* the subsets: no column, an integer column, a float column, both, a text
\* column, the column 10, 20, 30, ... read as integers and as floats, and float
\* columns with missing values
Subsets(n) ==
    {Frame(<<>>, <<>>, n, <<>>),
     Frame(<<"A">>, <<"int64">>, n, <<ramp(n, 1)>>),
     Frame(<<"B">>, <<"float64">>, n, <<wave(n)>>),
     Frame(<<"A", "B">>, <<"int64", "float64">>, n, <<ramp(n, 1), wave(n)>>),
     Frame(<<"T">>, <<"object">>, n, <<text(n)>>),
     Frame(<<"X">>, <<"int64">>, n, <<ramp(n, 10)>>),
     Frame(<<"Y">>, <<"float64">>, n, <<ramp(n, 10)>>),
     Frame(<<"A", "G">>, <<"int64", "float64">>, n, <<ramp(n, 1), gaps(n, {2})>>)}
      \cup {Frame(<<"G">>, <<"float64">>, n, <<gaps(n, at)>>) : at \in GapSets}

\* the column 1, 2, ..., 2 * MaxLen, as floats
LongSubset == Frame(<<"L">>, <<"float64">>, 2 * MaxLen, <<ramp(2 * MaxLen, 1)>>)

\* method names no branch of apply_modification tests for
UnknownMethods == {"ZeroFill"}

ApplyValues == {Zero, One, Rat(2, 1), Rat(-1, 1), Rat(1, 2)}

ApplyRatios == {Rat(1, 4), Rat(2, 5), Rat(1, 2), One, Rat(3, 2), Rat(2, 1), Rat(5, 2)}

ApplyCases ==
    {<<m, v, One, TRUE>> : m \in BasicMethods \cup FilterMethods, v \in ApplyValues}
      \cup {<<m, Zero, r, s>> : m \in UpsampleMethods, r \in ApplyRatios, s \in BOOLEAN}
      \cup {<<m, Zero, r, TRUE>> : m \in DownsampleMethods \cup UnknownMethods,
                                   r \in ApplyRatios}

ApplyCall ==
    /\ call.phase = "idle"
    /\ \E n \in 0..MaxLen, c \in ApplyCases :
          \E subset \in Subsets(n) \cup (IF n = MaxLen THEN {LongSubset} ELSE {}) :
             \E a \in (IF subset.cols = <<>> THEN AggRaises(c[1], c[3], {}) ELSE {FALSE}) :
                LET r == apply_modification(subset, c[1], c[2], c[3], c[4], a)
                IN  call' = [phase |-> "returned", subset |-> subset, method |-> c[1],
                             value |-> c[2], ratio |-> c[3], scipy |-> c[4],
                             raised |-> r.raised, result |-> r.frame]
    /\ UNCHANGED <<df, file_path, preview_active, loader, SCIPY_AVAILABLE, executed, last, unit_panel>>

SpecApply == Init /\ [][ApplyCall]_vars

-----------------------------------------------------------------------------
(* Two engine calls in a row: a Division, then a Multiplication by the same  *)
(* value applied to what the Division returned                               *)

DivideCall ==
    /\ call.phase = "idle"
    /\ \E n \in 0..MaxLen, v \in ApplyValues : \E subset \in Subsets(n) :
          LET r == apply_modification(subset, "Division", v, One, TRUE, FALSE)
          IN  call' = [phase |-> "divided", subset |-> subset, method |-> "Division",
                       value |-> v, ratio |-> One, scipy |-> TRUE,
                       raised |-> r.raised, result |-> r.frame]
    /\ UNCHANGED <<df, file_path, preview_active, loader, SCIPY_AVAILABLE, executed, last, unit_panel>>

MultiplyCall ==
    /\ call.phase = "divided"
    /\ ~call.raised
    /\ LET r == apply_modification(call.result, "Multiplication", call.value, One, TRUE,
                                   FALSE)
       IN  call' = [phase |-> "multiplied", origin |-> call.subset,
                    subset |-> call.result, method |-> "Multiplication",
                    value |-> call.value, ratio |-> One, scipy |-> TRUE,
                    raised |-> r.raised, result |-> r.frame]
    /\ UNCHANGED <<df, file_path, preview_active, loader, SCIPY_AVAILABLE, executed, last, unit_panel>>

NextChain == DivideCall \/ MultiplyCall

SpecChain == Init /\ [][NextChain]_vars

-----------------------------------------------------------------------------
(* The unit panel: the user changes one widget, the connected slot runs      *)

\* the assignment update_conversion_factor makes, reading the widgets as they
\* are once the change is in
Recompute ==
    conversion_ratio' =
        update_conversion_factor(comboOriginalUnit', comboTargetUnit',
                                 comboOriginalBaseUnit', comboTargetBaseUnit',
                                 spinOriginalValue', spinTargetValue')

\* comboOriginalUnit.currentTextChanged -> update_custom_unit_visibility, which
\* ends in update_conversion_factor
comboOriginalUnit_currentTextChanged ==
    /\ \E item \in UnitItems \ {comboOriginalUnit} : comboOriginalUnit' = item
    /\ UNCHANGED <<comboTargetUnit, comboOriginalBaseUnit, comboTargetBaseUnit,
                   spinOriginalValue, spinTargetValue>>
    /\ Recompute

comboTargetUnit_currentTextChanged ==
    /\ \E item \in UnitItems \ {comboTargetUnit} : comboTargetUnit' = item
    /\ UNCHANGED <<comboOriginalUnit, comboOriginalBaseUnit, comboTargetBaseUnit,
                   spinOriginalValue, spinTargetValue>>
    /\ Recompute

\* spinOriginalValue.valueChanged -> update_conversion_factor
spinOriginalValue_valueChanged ==
    /\ \E v \in SpinValues \ {spinOriginalValue} : spinOriginalValue' = v
    /\ UNCHANGED <<comboOriginalUnit, comboTargetUnit, comboOriginalBaseUnit,
                   comboTargetBaseUnit, spinTargetValue>>
    /\ Recompute

spinTargetValue_valueChanged ==
    /\ \E v \in SpinValues \ {spinTargetValue} : spinTargetValue' = v
    /\ UNCHANGED <<comboOriginalUnit, comboTargetUnit, comboOriginalBaseUnit,
                   comboTargetBaseUnit, spinOriginalValue>>
    /\ Recompute

\* comboOriginalBaseUnit.currentTextChanged -> update_conversion_factor
comboOriginalBaseUnit_currentTextChanged ==
    /\ \E item \in BaseItems \ {comboOriginalBaseUnit} : comboOriginalBaseUnit' = item
    /\ UNCHANGED <<comboOriginalUnit, comboTargetUnit, comboTargetBaseUnit,
                   spinOriginalValue, spinTargetValue>>
    /\ Recompute

comboTargetBaseUnit_currentTextChanged ==
    /\ \E item \in BaseItems \ {comboTargetBaseUnit} : comboTargetBaseUnit' = item
    /\ UNCHANGED <<comboOriginalUnit, comboTargetUnit, comboOriginalBaseUnit,
                   spinOriginalValue, spinTargetValue>>
    /\ Recompute

NextUnits ==
    /\ \/ comboOriginalUnit_currentTextChanged
       \/ comboTargetUnit_currentTextChanged
       \/ spinOriginalValue_valueChanged
       \/ spinTargetValue_valueChanged
       \/ comboOriginalBaseUnit_currentTextChanged
       \/ comboTargetBaseUnit_currentTextChanged
    /\ UNCHANGED <<df, file_path, preview_active, loader, SCIPY_AVAILABLE, executed,
                   last, call>>

SpecUnits == Init /\ [][NextUnits]_vars

-----------------------------------------------------------------------------
(* Properties of execute_modification *)

C2_InvalidRangeRejected ==
    LET n == last.before.rows
    IN  (/\ last.op = "execute_modification"
         /\ (last.start < 0 \/ last.end > n \/ last.start > last.end))
        => (last.outcome # "ok" /\ df = last.before)

\* C3: an Execute with no column selected is rejected and leaves the table as
\* it was, whatever the method and the ratio.
C3_EmptySelectionRejected ==
    (last.op = "execute_modification" /\ last.checked = {})
        => (last.outcome # "ok" /\ df = last.before)

\* C4: when the engine returns as many rows as the valid range [start, end)
\* holds, Execute keeps the row count of the table and changes no cell outside
\* the rows [start, end) of the selected columns.
C4_InPlaceFrame ==
    LET b == last.before
    IN  (/\ last.op = "execute_modification"
         /\ 0 <= last.start /\ last.start <= last.end /\ last.end <= b.rows
         /\ (last.outcome = "ok" => last.m = last.k))
        => /\ df.rows = b.rows
           /\ df.cols = b.cols
           /\ \A c \in 1..Len(b.cols) : \A i \in 1..b.rows :
                 (b.cols[c] \notin last.checked \/ i <= last.start \/ i > last.end)
                    => df.data[c][i] = b.data[c][i]

\* an inner range of one selected column has been rewritten in place
C4_Witness ==
    /\ last.op = "execute_modification"
    /\ last.outcome = "ok"
    /\ last.branch = "in_place"
    /\ last.start = 1 /\ last.end = 2 /\ last.before.rows = 3
    /\ last.checked = {"B"}
    /\ df # last.before

\* C5: when the engine returns m rows for a valid range [start, end) of an
\* n-row table and m differs from end - start, the table after Execute has
\* start + m + (n - end) rows: its first start rows and its last n - end rows
\* are the rows the table had there, the m new rows lie between them.
C5_RebuildRowCount ==
    LET b == last.before
        n == b.rows
    IN  (/\ last.op = "execute_modification"
         /\ last.outcome = "ok"
         /\ 0 <= last.start /\ last.start <= last.end /\ last.end <= n
         /\ last.m # last.k)
        => /\ df.rows = last.start + last.m + (n - last.end)
           /\ \A c \in 1..Len(b.cols) :
                 /\ \A i \in 1..last.start : df.data[c][i] = b.data[c][i]
                 /\ \A i \in 1..(n - last.end) :
                       df.data[c][df.rows - i + 1] = b.data[c][n - i + 1]

\* C6: in an Execute that rebuilds the table, every column that is not
\* selected is resampled over the same rows with Linear when ratio > 1 and
\* with Average otherwise, at the same ratio, and the middle blocks of all
\* columns have the same length.
C6_SyncNonSelected ==
    LET b    == last.before
        pre  == iloc(b, 0, last.start).rows
        suf  == iloc(b, last.end, b.rows).rows
        mid  == df.rows - pre - suf
        part(name) ==
            apply_modification(SelectCols(iloc(b, last.start, last.end), <<name>>),
                               IF name \in last.checked THEN last.method
                               ELSE IF Less(One, last.ratio) THEN "Linear" ELSE "Average",
                               last.value, last.ratio, SCIPY_AVAILABLE, FALSE).frame
    IN  (/\ last.op = "execute_modification"
         /\ last.outcome = "ok"
         /\ last.branch = "rebuild")
        => \A c \in 1..Len(b.cols) :
              /\ part(b.cols[c]).rows = mid
              /\ b.cols[c] \notin last.checked
                    => \A i \in 1..mid : df.data[c][pre + i] = part(b.cols[c]).data[1][i]

\* a column was upsampled with a method other than Linear, the other column
\* was not selected
C6_Witness ==
    /\ last.op = "execute_modification"
    /\ last.outcome = "ok"
    /\ last.branch = "rebuild"
    /\ last.method = "Previous"
    /\ last.checked = {"B"}
    /\ last.start = 0 /\ last.end = 3
    /\ df.rows = 6

\* C7: every Execute leaves the table with the same column names in the same
\* order.
C7_SameColumns ==
    last.op = "execute_modification" => df.cols = last.before.cols

\* columns survive both merges: a downsampled range and a range rewritten in place
C7_Witness ==
    /\ last.op = "execute_modification"
    /\ last.outcome = "ok"
    /\ last.checked = {"A"}
    /\ \/ last.branch = "rebuild" /\ last.method = "Max" /\ df.rows < last.before.rows
       \/ last.branch = "in_place" /\ last.method = "Addition" /\ df # last.before

-----------------------------------------------------------------------------
(* Properties of the read-only handlers *)

\* C8: preview_modification, show_preview_popup, preview_selection and an
\* Execute answered 'No' leave every cell of the table as it was, however
\* often and in whatever order they are called.
C8_PreviewsLeaveTable ==
    /\ df = read_csv(file_path)
    /\ last.op # "none" => df = last.before

\* a preview of a resampling succeeded after the flag had been raised
C8_Witness ==
    /\ last.op = "show_preview_popup"
    /\ last.outcome = "shown"
    /\ last.start = 1 /\ last.end = 2
    /\ last.checked = {"A"}
    /\ preview_active

-----------------------------------------------------------------------------
(* Properties of apply_modification *)

\* C9: Multiplication, Addition and Subtraction by any value v and Division
\* by v # 0 return the rows and the columns of the input, every numeric cell
\* x replaced by x * v, x + v, x - v or x / v; [1,2,3,4,5] multiplied by 2 is
\* [2,4,6,8,10].
C9_BasicOperations ==
    LET v == call.value
        holds(x, y) ==
            /\ IsNum(y)
            /\ CASE call.method = "Multiplication" -> y.n * (x.d * v.d) = (x.n * v.n) * y.d
                 [] call.method = "Division"       -> y.n * (x.d * v.n) = (x.n * v.d) * y.d
                 [] call.method = "Addition"       ->
                        y.n * (x.d * v.d) = (x.n * v.d + v.n * x.d) * y.d
                 [] call.method = "Subtraction"    ->
                        y.n * (x.d * v.d) = (x.n * v.d - v.n * x.d) * y.d
    IN  (/\ call.phase = "returned"
         /\ call.method \in BasicMethods
         /\ ~(call.method = "Division" /\ v.n = 0))
        => /\ ~call.raised
           /\ call.result.rows = call.subset.rows
           /\ call.result.cols = call.subset.cols
           /\ \A c \in 1..Len(call.subset.cols) : \A i \in 1..call.subset.rows :
                 IsNum(call.subset.data[c][i])
                    => holds(call.subset.data[c][i], call.result.data[c][i])
           /\ (/\ call.method = "Multiplication" /\ v = Rat(2, 1)
               /\ call.subset.cols = <<"A">> /\ call.subset.rows = 5)
              => call.result.data[1] = <<Int2Cell(2), Int2Cell(4), Int2Cell(6),
                                         Int2Cell(8), Int2Cell(10)>>

\* [1,2,3,4,5] has been multiplied by 2
C9_Witness ==
    /\ call.phase = "returned"
    /\ call.method = "Multiplication"
    /\ call.value = Rat(2, 1)
    /\ call.subset.data = <<<<Int2Cell(1), Int2Cell(2), Int2Cell(3), Int2Cell(4), Int2Cell(5)>>>>
    /\ ~call.raised

\* C10: every upsampling method with ratio > 1 returns floor(n * ratio) rows
\* for a subset of n rows.
C10_UpsampleRowCount ==
    (/\ call.phase = "returned"
     /\ call.method \in UpsampleMethods
     /\ Less(One, call.ratio)
     /\ ~call.raised)
        => call.result.rows * call.ratio.d <= call.subset.rows * call.ratio.n
           /\ call.subset.rows * call.ratio.n < (call.result.rows + 1) * call.ratio.d

\* C11: Average, Max and Min with ratio < 1 return ceil(n / g) rows for a
\* subset of n rows, g = max(1, floor(1 / ratio)) being the group size.
C11_DownsampleRowCount ==
    LET n == call.subset.rows
        g == Max2(1, call.ratio.d \div call.ratio.n)
    IN  (/\ call.phase = "returned"
         /\ call.method \in DownsampleMethods
         /\ Less(call.ratio, One)
         /\ ~call.raised)
        => /\ call.result.rows * g >= n
           /\ (call.result.rows - 1) * g < n

\* five rows in groups of two: the last group holds one row
C11_Witness ==
    /\ call.phase = "returned"
    /\ call.method = "Max"
    /\ call.ratio = Rat(2, 5)
    /\ call.subset.rows = 5
    /\ call.subset.cols = <<"B">>
    /\ call.result.rows = 3

\* C12: an upsampling method with ratio <= 1, Average, Max or Min with
\* ratio >= 1 and LPF or HPF with tau <= 0 raise nothing and return the numeric
\* input: the same columns, the same rows, every numeric or missing cell as it
\* was (a text cell was coerced to a missing value).
C12_OutsideDomainNoOp ==
    (/\ call.phase = "returned"
     /\ \/ call.method \in UpsampleMethods /\ call.ratio.n <= call.ratio.d
        \/ call.method \in DownsampleMethods /\ call.ratio.n >= call.ratio.d
        \/ call.method \in FilterMethods /\ call.value.n <= 0)
        => /\ ~call.raised
           /\ call.result.rows = call.subset.rows
           /\ call.result.cols = call.subset.cols
           /\ \A c \in 1..Len(call.subset.cols) : \A i \in 1..call.subset.rows :
                 call.result.data[c][i] =
                    IF call.subset.data[c][i].k = "txt" THEN NaN
                    ELSE call.subset.data[c][i]

\* a filter with a negative time constant returned a two-column subset
C12_Witness ==
    /\ call.phase = "returned"
    /\ call.method = "HPF"
    /\ call.value = Rat(-1, 1)
    /\ call.subset.cols = <<"A", "B">>
    /\ call.subset.rows = 3
    /\ call.result.data = call.subset.data

\* C13: Division by 0 is a no-op: apply_modification raises nothing and
\* returns the subset it was given with every numeric cell as it was, no cell
\* infinite or newly missing; an Execute of Division by 0 leaves every cell of
\* the table as it was.
C13_DivisionByZeroNoOp ==
    LET b   == last.before
        sub == SelectCols(iloc(b, last.start, last.end), selected_cols(b, last.checked))
        r   == apply_modification(sub, "Division", Zero, last.ratio, SCIPY_AVAILABLE, FALSE)
    IN  (/\ last.op = "execute_modification"
         /\ last.method = "Division"
         /\ last.value.n = 0)
        => /\ ~r.raised
           /\ r.frame.rows = sub.rows
           /\ r.frame.cols = sub.cols
           /\ \A c \in 1..Len(sub.cols) : \A i \in 1..sub.rows :
                 sub.data[c][i].k # "txt" => r.frame.data[c][i] = sub.data[c][i]
           /\ df.rows = b.rows
           /\ df.cols = b.cols
           /\ \A c \in 1..Len(b.cols) : \A i \in 1..b.rows : df.data[c][i] = b.data[c][i]

\* C14: for tau > 0 and a column without missing values LPF returns y with
\* y[0] = x[0] and y[i] = alpha * x[i] + (1 - alpha) * y[i-1] for i >= 1,
\* alpha = dt / (tau + dt), dt = 1; tau = 1 on [10, 20, 30] gives [10, 15, 22.5].
C14_LowPassRecursion ==
    LET alpha == FDiv(One, FAdd(call.value, One))
    IN  (/\ call.phase = "returned"
         /\ call.method = "LPF"
         /\ call.value.n > 0
         /\ call.subset.rows >= 1)
        => /\ ~call.raised
           /\ call.result.rows = call.subset.rows
           /\ \A c \in 1..Len(call.subset.cols) :
                 LET x == call.subset.data[c]
                     y == call.result.data[c]
                 IN  (\A i \in 1..Len(x) : IsNum(x[i]))
                        => /\ y[1] = x[1]
                           /\ \A i \in 2..Len(x) :
                                 y[i] = FAdd(FMul(alpha, x[i]), FMul(FSub(One, alpha), y[i - 1]))
                           /\ (call.value = One /\ x = <<Int2Cell(10), Int2Cell(20), Int2Cell(30)>>)
                                 => y = <<Int2Cell(10), Int2Cell(15), Rat(45, 2)>>

\* C15: for tau > 0 and a column without missing values HPF returns y with
\* y[0] = 0 and y[i] = alpha * (y[i-1] + x[i] - x[i-1]) for i >= 1,
\* alpha = tau / (tau + dt), and as many rows as the input.
C15_HighPassRecursion ==
    LET alpha == FDiv(call.value, FAdd(call.value, One))
    IN  (/\ call.phase = "returned"
         /\ call.method = "HPF"
         /\ call.value.n > 0
         /\ call.subset.rows >= 1)
        => /\ ~call.raised
           /\ call.result.rows = call.subset.rows
           /\ \A c \in 1..Len(call.subset.cols) :
                 LET x == call.subset.data[c]
                     y == call.result.data[c]
                 IN  (\A i \in 1..Len(x) : IsNum(x[i]))
                        => /\ y[1] = Zero
                           /\ \A i \in 2..Len(x) :
                                 y[i] = FMul(alpha, FSub(FAdd(y[i - 1], x[i]), x[i - 1]))

\* C16: for LPF and HPF with tau > 0 a missing input at row i makes the output
\* hold the previous output, y[i] = y[i-1], and a missing value is not carried
\* forward: after a missing input at any row, the output at every later row
\* with a non-missing input is non-missing.
C16_MissingInputHeld ==
    (/\ call.phase = "returned"
     /\ call.method \in FilterMethods
     /\ call.value.n > 0
     /\ call.subset.rows >= 1)
        => /\ ~call.raised
           /\ \A c \in 1..Len(call.subset.cols) :
                 LET x == call.subset.data[c]
                     y == call.result.data[c]
                     missing(i) == x[i].k \in {"nan", "txt"}
                 IN  /\ \A i \in 2..Len(x) : missing(i) => y[i] = y[i - 1]
                     /\ \A i \in 1..Len(x) : \A j \in (i + 1)..Len(x) :
                           (missing(i) /\ ~missing(j)) => ~isnan(y[j])

C18_ZeroFill ==
    LET n == call.subset.rows
        r == call.ratio
        m == (n * r.n) \div r.d
        round(i) == (2 * i * r.n + r.d) \div (2 * r.d)
    IN  (/\ call.phase = "returned"
         /\ call.method = "ZeroFill"
         /\ r.n > r.d)
        => /\ ~call.raised
           /\ call.result.rows = m
           /\ \A c \in 1..Len(call.subset.cols) : \A j \in 0..(m - 1) :
                 IF \E i \in 0..(n - 1) : round(i) = j
                 THEN \E i \in 0..(n - 1) :
                         round(i) = j /\ call.result.data[c][j + 1] = call.subset.data[c][i + 1]
                 ELSE call.result.data[c][j + 1] = Zero

-----------------------------------------------------------------------------
(* Properties of update_conversion_factor *)

\* C19: whatever the unit panel shows, the stored conversion ratio is
\* secondsOf(original) / secondsOf(target), where second, minute, hour and day
\* are 1, 60, 3600 and 86400 seconds and a custom unit is its multiplier times
\* the seconds of its base unit; it is 1 when secondsOf(target) is 0; and it
\* holds after every change of a unit widget, so it is recomputed each time.
C19_ConversionRatio ==
    LET seconds == [second |-> 1, minute |-> 60, hour |-> 3600, day |-> 86400]
        named(item) == CHOOSE u \in UnitNames : UnitItem[u] = item
        base(item) == CHOOSE u \in UnitNames : BaseItem[u] = item
        secondsOf(unit, multiplier, baseUnit) ==
            IF unit = CustomItem
            THEN <<multiplier.n * seconds[base(baseUnit)], multiplier.d>>
            ELSE <<seconds[named(unit)], 1>>
        o == secondsOf(comboOriginalUnit, spinOriginalValue, comboOriginalBaseUnit)
        t == secondsOf(comboTargetUnit, spinTargetValue, comboTargetBaseUnit)
    IN  /\ conversion_ratio.k = "num"
        /\ conversion_ratio.d > 0
        /\ IF t[1] = 0
           THEN conversion_ratio = One
           ELSE conversion_ratio.n * t[1] * o[2] = conversion_ratio.d * o[1] * t[2]

\* a custom original unit of 15 minutes against a target of one hour gives 1/4
C19_Witness ==
    /\ comboOriginalUnit = CustomItem
    /\ spinOriginalValue = Rat(15, 1)
    /\ comboOriginalBaseUnit = BaseItem.minute
    /\ comboTargetUnit = UnitItem.hour
    /\ conversion_ratio = Rat(1, 4)

-----------------------------------------------------------------------------
(* Properties of the threaded load *)

\* C20: a started load emits one result, a table or an error, and the callback
\* receives it once: a started loader is left only by the emission, an emitted
\* result only by the callback, which ends the load; each started load is
\* eventually emitted and each emitted result eventually delivered; and a
\* callback that receives an error leaves the table and the preview flag alone.
C20_OneResultPerLoad ==
    /\ [][/\ (loader.state = "started" /\ loader'.state # "started")
               => (loader'.state = "emitted" /\ loader'.file = loader.file)
          /\ (loader.state = "emitted" /\ loader'.state # "emitted")
               => loader'.state = "idle"
          /\ (loader'.state = "emitted") => (loader.state \in {"started", "emitted"})
          /\ (loader.state = "emitted" /\ ~loader.ok /\ loader'.state = "idle")
               => (df' = df /\ preview_active' = preview_active)]_vars
    /\ (loader.state = "started") ~> (loader.state = "emitted")
    /\ (loader.state = "emitted") ~> (loader.state = "idle")

\* C21: while a load is in flight no second load starts, no Execute and no
\* preview runs, and the table changes only when the callback installs the
\* table that load has read.
C21_LoadExclusive ==
    [][(loader.state \in {"started", "emitted"})
          => /\ loader'.state # "aborted"
             /\ executed' = executed
             /\ last' # last => last'.op = "on_data_loaded"
             /\ \/ df' = df /\ preview_active' = preview_active
                \/ /\ loader.state = "emitted" /\ loader.ok /\ loader'.state = "idle"
                   /\ df' = read_csv(loader.file)]_vars

-----------------------------------------------------------------------------
(* Further properties of apply_modification *)

\* C22: on a subset with at least one column, whatever the rows (none, one or
\* several), the method, the value and the ratio, apply_modification returns
\* a frame and raises nothing.
C22_EngineNeverRaises ==
    (call.phase = "returned" /\ call.subset.cols # <<>>) => ~call.raised

\* C23: on a subset of numeric columns, a Division by a value other than 0
\* followed by a Multiplication by the same value returns the cells, the row
\* count and the columns of the subset it started from.
C23_DivideThenMultiply ==
    (/\ call.phase = "multiplied"
     /\ call.value # Zero
     /\ \A c \in 1..Len(call.origin.cols) : call.origin.dtypes[c] # "object")
        => /\ ~call.raised
           /\ call.result.cols = call.origin.cols
           /\ call.result.rows = call.origin.rows
           /\ call.result.data = call.origin.data

\* the integer column [1, 2, 3] divided by 2 and multiplied by 2 again
C23_Witness ==
    /\ call.phase = "multiplied"
    /\ call.value = Rat(2, 1)
    /\ call.origin.cols = <<"A">>
    /\ call.origin.data = <<ramp(3, 1)>>
    /\ call.subset.data = <<[i \in 1..3 |-> Rat(i, 2)]>>
    /\ call.result.data = <<ramp(3, 1)>>

\* C26: Linear with ratio > 1 on n rows returns, for every column, the values
\* at m = floor(n * ratio) evenly spaced positions over [0, n - 1]: the input
\* itself at a position that is a sample, the first and the last input among
\* them, and between two samples the point on the straight line through them;
\* [1, 2, 3] with ratio 2 gives 1, 7/5, 9/5, 11/5, 13/5, 3.
C26_LinearUpsampling ==
    LET n == call.subset.rows
        m == call.result.rows
        x(c) == to_numeric(call.subset.data[c])
        pos(j) == IF m = 1 THEN Zero ELSE Rat((j - 1) * (n - 1), m - 1)
        line(a, b, t) == FAdd(a, FMul(FSub(b, a), t))
        expected(c, j) ==
            LET p == pos(j)
                lo == p.n \div p.d
            IN  IF p.d = 1 THEN x(c)[lo + 1]
                ELSE line(x(c)[lo + 1], x(c)[lo + 2], FSub(p, Int2Cell(lo)))
    IN  (/\ call.phase = "returned"
         /\ call.method = "Linear"
         /\ call.ratio.n > call.ratio.d
         /\ n >= 1)
        => /\ ~call.raised
           /\ \A c \in 1..Len(call.subset.cols) :
                 /\ call.result.data[c][1] = x(c)[1]
                 /\ call.result.data[c][m] = x(c)[n]
                 /\ \A j \in 1..m : call.result.data[c][j] = expected(c, j)

\* the upsampling methods whose interpolant scipy constructs from the samples
KernelMethods == {"Cubic", "PCHIP", "V5Cubic", "Makima", "Spline"}

\* C27: when scipy cannot construct the requested kernel for a column (too few
\* samples, or a missing value among them), the call still returns, every
\* column of the result has floor(n * ratio) rows, the column whose kernel
\* failed holds the linear interpolation on the grid, and a column whose kernel
\* was constructed holds the kernel's values (the sample at a grid point that is
\* a sample).
C27_KernelFallback ==
    LET n == call.subset.rows
        m == new_length(n, call.ratio)
        x(c) == to_numeric(call.subset.data[c])
        fails(c) == \/ Len(x(c)) < (IF call.method = "Cubic" THEN 4 ELSE 2)
                    \/ \E i \in 1..n : isnan(x(c)[i])
        kernel(c, j) ==
            LET p == new_index(j, n, m)
            IN  IF n = 2 \/ p.d = 1 THEN np_interp(x(c), p) ELSE Opaque
    IN  (/\ call.phase = "returned"
         /\ call.method \in KernelMethods
         /\ call.scipy
         /\ call.ratio.n > call.ratio.d
         /\ \E c \in 1..Len(call.subset.cols) : fails(c))
        => /\ ~call.raised
           /\ call.result.rows = m
           /\ call.result.cols = call.subset.cols
           /\ \A c \in 1..Len(call.subset.cols) :
                 /\ Len(call.result.data[c]) = m
                 /\ \A j \in 1..m :
                       call.result.data[c][j] =
                          IF fails(c) THEN np_interp(x(c), new_index(j, n, m))
                          ELSE kernel(c, j)

-----------------------------------------------------------------------------
(* Further properties of the read-only handlers *)

\* C25: preview_selection accepts every range with 0 <= start <= end <= row
\* count, the full range [0, row count) that a load puts into the fields
\* included: it marks the range and shows no warning.
C25_ValidRangeAccepted ==
    (/\ last.op = "preview_selection"
     /\ 0 <= last.start /\ last.start <= last.end /\ last.end <= last.before.rows)
        => last.outcome = "shown"

-----------------------------------------------------------------------------
(* Further properties of execute_modification *)

\* C24: Execute never writes into the table object it started from: a
\* reference to that object taken before the call shows the cells of before
\* the call afterwards.  (apply_modification works on df_subset.copy() and
\* leaves its argument alone.)
C24_PriorTableUntouched ==
    last.op = "execute_modification" => last.prior = last.before

-----------------------------------------------------------------------------
(* Properties of the session: failure paths and the preview flag *)

\* C28: an Execute that ends in 'Execution failed' leaves the table and the
\* preview_active flag as they were before the call; in particular it leaves no
\* column of the table updated.
C28_ExecuteAllOrNothing ==
    [][(executed' # executed /\ last'.outcome = "failed")
          => (df' = df /\ preview_active' = preview_active)]_vars

\* C29: preview_active is false initially; it turns true only in a
\* preview_modification that completes without an error, and every such
\* preview leaves it true; every load and every Execute that completes without
\* an error leaves it false, and nothing else turns it false.
C29_PreviewFlag ==
    /\ preview_active = FALSE
    /\ [][LET previewed == last'.op = "preview_modification" /\ last' # last
              loaded    == loader.state = "emitted" /\ loader' = Idle /\ loader.ok
              executing == executed' # executed
          IN  /\ (~preview_active /\ preview_active')
                    => (last'.op = "preview_modification" /\ last'.outcome = "ok")
              /\ (previewed /\ last'.outcome = "ok") => preview_active'
              /\ (loaded /\ last'.outcome = "ok") => ~preview_active'
              /\ (executing /\ last'.outcome = "ok") => ~preview_active'
              /\ (preview_active /\ ~preview_active')
                    => (last'.outcome = "ok" /\ (loaded \/ executing))]_vars

\* C30: after an Execute on rows [start, end) that completes, a text column
\* that was not selected holds, when the row count of the range changed, its
\* old cells before start, the missing-value marker in every cell of the new
\* middle block, and its old cells from end on; when the row count of the range
\* did not change it holds all its old cells.
C30_UnselectedTextColumn ==
    LET old == last.before
    IN  \A c \in 1..Len(old.cols) :
           (/\ last.op = "execute_modification"
            /\ last.outcome = "ok"
            /\ 0 <= last.start /\ last.start <= last.end /\ last.end <= old.rows
            /\ old.dtypes[c] = "object"
            /\ old.cols[c] \notin last.checked)
           => /\ df.cols[c] = old.cols[c]
              /\ df.data[c] =
                    IF df.rows # old.rows
                    THEN SubSeq(old.data[c], 1, last.start)
                           \o [j \in 1..(df.rows - old.rows + last.end - last.start) |-> NaN]
                           \o SubSeq(old.data[c], last.end + 1, old.rows)
                    ELSE old.data[c]

====
